---- MODULE Spec2Model ----
(***************************************************************************)
(* Model of electrum_wallet_file.rs: the conversion between an Electrum    *)
(* wallet document and output descriptors.  Texts are sequences of         *)
(* one-character strings; every regular expression of the source is        *)
(* written out as the leftmost-first search the regex crate performs.      *)
(***************************************************************************)
EXTENDS Integers, Sequences, FiniteSets, TLC

VARIABLES op, text, document, wallet, descriptors, value, outcome

vars == <<op, text, document, wallet, descriptors, value, outcome>>

(***************************************************************************)
(* Bounds of the model.                                                    *)
(***************************************************************************)
MaxKeys == 2
MaxFields == 3
MaxClose == 2

(***************************************************************************)
(* Characters and character classes.                                       *)
(***************************************************************************)
Digit == {"0", "1", "2", "3", "4", "5", "6", "7", "8", "9"}

Lower == {"a", "b", "c", "d", "e", "f", "g", "h", "i", "j", "k", "l", "m",
          "n", "o", "p", "q", "r", "s", "t", "u", "v", "w", "x", "y", "z"}

Upper == {"A", "B", "C", "D", "E", "F", "G", "H", "I", "J", "K", "L", "M",
          "N", "O", "P", "Q", "R", "S", "T", "U", "V", "W", "X", "Y", "Z"}

Alnum == Digit \cup Lower \cup Upper

FieldChar == Lower \cup Digit \cup {"_", "-"}

Base58 == Alnum \ {"0", "O", "I", "l"}

DigitVal(c) ==
    CASE c = "0" -> 0 [] c = "1" -> 1 [] c = "2" -> 2 [] c = "3" -> 3
      [] c = "4" -> 4 [] c = "5" -> 5 [] c = "6" -> 6 [] c = "7" -> 7
      [] c = "8" -> 8 [] c = "9" -> 9

DigitChar(n) ==
    CASE n = 0 -> "0" [] n = 1 -> "1" [] n = 2 -> "2" [] n = 3 -> "3"
      [] n = 4 -> "4" [] n = 5 -> "5" [] n = 6 -> "6" [] n = 7 -> "7"
      [] n = 8 -> "8" [] n = 9 -> "9"

(***************************************************************************)
(* Text helpers.                                                           *)
(***************************************************************************)
At(s, i) == IF i >= 1 /\ i <= Len(s) THEN s[i] ELSE ""

StartsAt(s, i, p) ==
    /\ i >= 1
    /\ i + Len(p) - 1 <= Len(s)
    /\ \A k \in 1..Len(p) : s[i + k - 1] = p[k]

Slice(s, i, j) == IF j <= i THEN <<>> ELSE SubSeq(s, i, j - 1)

RECURSIVE RunEnd(_, _, _)
\* the position after the longest run of characters of class cls from i
RunEnd(s, i, cls) ==
    IF i <= Len(s) /\ s[i] \in cls THEN RunEnd(s, i + 1, cls) ELSE i

Contains(s, p) == \E i \in 1..Len(s) : StartsAt(s, i, p)

RECURSIVE Replace(_, _, _)
\* str::replace: every non-overlapping occurrence, left to right
Replace(s, from, to) ==
    IF Len(s) = 0 THEN <<>>
    ELSE IF StartsAt(s, 1, from)
         THEN to \o Replace(SubSeq(s, Len(from) + 1, Len(s)), from, to)
         ELSE <<s[1]>> \o Replace(Tail(s), from, to)

CountChar(s, c) == Cardinality({i \in 1..Len(s) : s[i] = c})

RECURSIVE ParseInt(_, _)
\* str::parse of a digit run, as an unbounded integer
ParseInt(s, acc) ==
    IF Len(s) = 0 THEN acc ELSE ParseInt(Tail(s), acc * 10 + DigitVal(s[1]))

RECURSIVE FormatInt(_)
\* Display of an unsigned integer: canonical decimal
FormatInt(n) ==
    IF n < 10 THEN <<DigitChar(n)>>
    ELSE FormatInt(n \div 10) \o <<DigitChar(n % 10)>>

U8Max == 255

(***************************************************************************)
(* Literals of the source.                                                 *)
(***************************************************************************)
sPkh == <<"p", "k", "h">>
sWpkh == <<"w", "p", "k", "h">>
sWsh == <<"w", "s", "h">>
sSh == <<"s", "h">>
sShWpkh == <<"s", "h", "(", "w", "p", "k", "h">>
sShWsh == <<"s", "h", "(", "w", "s", "h">>
sSortedmulti == <<"s", "o", "r", "t", "e", "d", "m", "u", "l", "t", "i">>
sRecv == <<"/", "0", "/", "*">>
sChg == <<"/", "1", "/", "*">>
sStandard == <<"s", "t", "a", "n", "d", "a", "r", "d">>
sOf == <<"o", "f">>
sBip32 == <<"b", "i", "p", "3", "2">>

(***************************************************************************)
(* Wallet values.                                                          *)
(***************************************************************************)
Standard == [tag |-> "Standard", x |-> 0, y |-> 0]

Multisig(x, y) == [tag |-> "Multisig", x |-> x, y |-> y]

NewAddresses == [change |-> <<>>, receiving |-> <<>>]

None == [some |-> FALSE, str |-> <<>>]

Some(t) == [some |-> TRUE, str |-> t]

NoWallet ==
    [some |-> FALSE, addresses |-> NewAddresses, wallet_type |-> Standard,
     keystores |-> <<>>]

ElectrumWalletFile(a, t, k) ==
    [some |-> TRUE, addresses |-> a, wallet_type |-> t, keystores |-> k]

Ok(w) == [res |-> "Ok", wallet |-> w]

Err(e) == [res |-> e, wallet |-> NoWallet]

(***************************************************************************)
(* Extended keys.  A key text is a version prefix and a base58 body; the   *)
(* checksum and length checks of the bitcoin crate are the requirement     *)
(* that the body is a non-empty run of base58 characters.                  *)
(***************************************************************************)
KeyBodyOk(k) ==
    /\ Len(k) >= 5
    /\ \A i \in 5..Len(k) : k[i] \in Base58

ExtendedPrivKeyFromStr(k) ==
    /\ KeyBodyOk(k)
    /\ k[1] \in {"x", "t"}
    /\ SubSeq(k, 2, 4) = <<"p", "r", "v">>

ExtendedPubKeyFromStr(k) ==
    /\ KeyBodyOk(k)
    /\ k[1] \in {"x", "t"}
    /\ SubSeq(k, 2, 4) = <<"p", "u", "b">>

\* the public key of a private key: same network, chain code and depth
ExtendedPubKeyFromPrivate(k) == <<k[1], "p", "u", "b">> \o SubSeq(k, 5, Len(k))

(***************************************************************************)
(* The tagged (Electrum) form of an extended key: the version prefix names *)
(* the network and the script kind.                                        *)
(***************************************************************************)
ScriptKinds == {sPkh, sShWpkh, sShWsh, sWpkh, sWsh}

VersionLetter(net, kind) ==
    IF net = "x"
    THEN CASE kind = sPkh -> "x" [] kind = sShWpkh -> "y" [] kind = sShWsh -> "Y"
           [] kind = sWpkh -> "z" [] kind = sWsh -> "Z"
    ELSE CASE kind = sPkh -> "t" [] kind = sShWpkh -> "u" [] kind = sShWsh -> "U"
           [] kind = sWpkh -> "v" [] kind = sWsh -> "V"

VersionLetters == {"x", "y", "Y", "z", "Z", "t", "u", "U", "v", "V"}

LetterNet(c) == IF c \in {"x", "y", "Y", "z", "Z"} THEN "x" ELSE "t"

LetterKind(c) ==
    CASE c \in {"x", "t"} -> sPkh [] c \in {"y", "u"} -> sShWpkh
      [] c \in {"Y", "U"} -> sShWsh [] c \in {"z", "v"} -> sWpkh
      [] c \in {"Z", "V"} -> sWsh

\* electrum_xpub / electrum_xprv: standard text and kind to tagged text
ElectrumEncode(k, kind) ==
    IF kind \in ScriptKinds
    THEN [ok |-> TRUE, str |-> <<VersionLetter(k[1], kind)>> \o Tail(k)]
    ELSE [ok |-> FALSE, str |-> <<>>]

\* from_str of a tagged text, with kind() and xkeystr() of the result
ElectrumDecode(t, mid) ==
    IF /\ KeyBodyOk(t)
       /\ t[1] \in VersionLetters
       /\ SubSeq(t, 2, 4) = mid
    THEN [ok |-> TRUE, kind |-> LetterKind(t[1]),
          xkeystr |-> <<LetterNet(t[1])>> \o Tail(t)]
    ELSE [ok |-> FALSE, kind |-> <<>>, xkeystr |-> <<>>]

ElectrumExtendedPrivKeyFromStr(t) == ElectrumDecode(t, <<"p", "r", "v">>)

ElectrumExtendedPubKeyFromStr(t) == ElectrumDecode(t, <<"p", "u", "b">>)

(***************************************************************************)
(* Keystore                                                                *)
(***************************************************************************)
DefaultType == sBip32

Keystore(ty, xprv, xpub) == [type |-> ty, xprv |-> xprv, xpub |-> xpub]

NoKeystore == [ok |-> FALSE, ks |-> Keystore(<<>>, None, <<>>)]

\* Keystore::new
KeystoreNew(kind, xkey) ==
    IF ExtendedPrivKeyFromStr(xkey)
    THEN LET exprv == ElectrumEncode(xkey, kind)
             expub == ElectrumEncode(ExtendedPubKeyFromPrivate(xkey), kind)
         IN  IF exprv.ok /\ expub.ok
             THEN [ok |-> TRUE,
                   ks |-> Keystore(DefaultType, Some(exprv.str), expub.str)]
             ELSE NoKeystore
    ELSE IF ExtendedPubKeyFromStr(xkey)
         THEN LET expub == ElectrumEncode(xkey, kind)
              IN  IF expub.ok
                  THEN [ok |-> TRUE, ks |-> Keystore(DefaultType, None, expub.str)]
                  ELSE NoKeystore
         ELSE NoKeystore

\* Keystore::get_xkey: the xprv if available or else the xpub
GetXkey(ks) ==
    IF ks.xprv.some
    THEN ElectrumExtendedPrivKeyFromStr(ks.xprv.str)
    ELSE ElectrumExtendedPubKeyFromStr(ks.xpub)

(***************************************************************************)
(* from_descriptor                                                         *)
(***************************************************************************)
\* [tx]p(ub|rv)[0-9A-Za-z]+ at i: the position after it, or 0
XkeyEnd(s, i) ==
    IF /\ At(s, i) \in {"t", "x"}
       /\ At(s, i + 1) = "p"
       /\ \/ StartsAt(s, i + 2, <<"u", "b">>)
          \/ StartsAt(s, i + 2, <<"r", "v">>)
       /\ RunEnd(s, i + 4, Alnum) > i + 4
    THEN RunEnd(s, i + 4, Alnum)
    ELSE 0

SinglesigAlternatives == <<sPkh, sShWpkh, sShWsh, sWpkh, sWsh>>

\* alternative a of the singlesig expression matches at i
SinglesigMatchAt(s, i, a) ==
    LET kind == SinglesigAlternatives[a]
        j == i + Len(kind)
        e == XkeyEnd(s, j + 1)
    IN  /\ StartsAt(s, i, kind)
        /\ At(s, j) = "("
        /\ e > 0
        /\ StartsAt(s, e, sRecv)
        /\ At(s, e + 4) = ")"

NoCaptures == [some |-> FALSE, kind |-> <<>>, x |-> <<>>]

\* Regex::captures of the singlesig expression: groups 1 and 3 of the
\* leftmost match, alternatives tried in the order written
SinglesigCaptures(s) ==
    LET hits == {i \in 1..Len(s) :
                    \E a \in 1..Len(SinglesigAlternatives) : SinglesigMatchAt(s, i, a)}
    IN  IF hits = {} THEN NoCaptures
        ELSE LET i == CHOOSE m \in hits : \A n \in hits : m <= n
                 alts == {a \in 1..Len(SinglesigAlternatives) : SinglesigMatchAt(s, i, a)}
                 a == CHOOSE m \in alts : \A n \in alts : m <= n
                 kind == SinglesigAlternatives[a]
                 j == i + Len(kind)
             IN  [some |-> TRUE, kind |-> kind,
                  x |-> Slice(s, j + 1, XkeyEnd(s, j + 1))]

from_descriptor_singlesig(desc) ==
    LET captures == SinglesigCaptures(desc)
        keystore == KeystoreNew(captures.kind, captures.x)
    IN  IF ~captures.some THEN Err("UnrecognizedDescriptor")
        ELSE IF ~keystore.ok THEN Err("InvalidExtendedKey")
        ELSE Ok(ElectrumWalletFile(NewAddresses, Standard, <<keystore.ks>>))

MultisigAlternatives == <<sSh, sShWsh, sWsh>>

RECURSIVE MultisigItems(_, _, _)
\* ([tx]p(ub|rv)[0-9A-Za-z]+/0/\*,?)+\)+ from i, n items matched so far
MultisigItems(s, i, n) ==
    LET e == XkeyEnd(s, i)
    IN  IF e > 0 /\ StartsAt(s, e, sRecv)
        THEN IF At(s, e + 4) = ","
             THEN MultisigItems(s, e + 5, n + 1)
             ELSE MultisigItems(s, e + 4, n + 1)
        ELSE n >= 1 /\ At(s, i) = ")"

\* alternative a of the multisig expression matches at i
MultisigMatchAt(s, i, a) ==
    LET kind == MultisigAlternatives[a]
        j == i + Len(kind)
        d == j + 1 + Len(sSortedmulti) + 1
    IN  /\ StartsAt(s, i, kind)
        /\ At(s, j) = "("
        /\ StartsAt(s, j + 1, sSortedmulti)
        /\ At(s, d - 1) = "("
        /\ At(s, d) \in Digit
        /\ At(s, d + 1) = ","
        /\ MultisigItems(s, d + 2, 0)

\* Regex::captures of the multisig expression: groups 1 and 2 of the
\* leftmost match, alternatives tried in the order written
MultisigCaptures(s) ==
    LET hits == {i \in 1..Len(s) :
                    \E a \in 1..Len(MultisigAlternatives) : MultisigMatchAt(s, i, a)}
    IN  IF hits = {} THEN NoCaptures
        ELSE LET i == CHOOSE m \in hits : \A n \in hits : m <= n
                 alts == {a \in 1..Len(MultisigAlternatives) : MultisigMatchAt(s, i, a)}
                 a == CHOOSE m \in alts : \A n \in alts : m <= n
                 kind == MultisigAlternatives[a]
             IN  [some |-> TRUE, kind |-> kind,
                  x |-> <<s[i + Len(kind) + 1 + Len(sSortedmulti) + 1]>>]

\* [tx]p[ur][bv][0-9A-Za-z]+ at i: the position after it, or 0
LooseXkeyEnd(s, i) ==
    IF /\ At(s, i) \in {"t", "x"}
       /\ At(s, i + 1) = "p"
       /\ At(s, i + 2) \in {"u", "r"}
       /\ At(s, i + 3) \in {"b", "v"}
       /\ RunEnd(s, i + 4, Alnum) > i + 4
    THEN RunEnd(s, i + 4, Alnum)
    ELSE 0

RECURSIVE CapturesIter(_, _)
\* Regex::captures_iter: the non-overlapping matches of the key expression
\* from i, left to right
CapturesIter(s, i) ==
    IF i > Len(s) THEN <<>>
    ELSE IF LooseXkeyEnd(s, i) > 0
         THEN <<Slice(s, i, LooseXkeyEnd(s, i))>> \o CapturesIter(s, LooseXkeyEnd(s, i))
         ELSE CapturesIter(s, i + 1)

\* the kind a multisig wrapper is stored under
MultisigKind(wrapper) == IF wrapper = sSh THEN sPkh ELSE wrapper

from_descriptor_multisig(desc) ==
    LET captures == MultisigCaptures(desc)
        kind == MultisigKind(captures.kind)
        news == [i \in 1..Len(CapturesIter(desc, 1)) |->
                    KeystoreNew(kind, CapturesIter(desc, 1)[i])]
        keystores == [i \in 1..Len(news) |-> news[i].ks]
        y == Len(keystores)
    IN  IF ~captures.some THEN Err("UnrecognizedDescriptor")
        ELSE IF \E i \in 1..Len(news) : ~news[i].ok THEN Err("InvalidExtendedKey")
        ELSE IF y < 2 THEN Err("InsufficientSigners")
        ELSE Ok(ElectrumWalletFile(NewAddresses,
                                   Multisig(ParseInt(captures.x, 0), y % (U8Max + 1)),
                                   keystores))

from_descriptor(desc) ==
    IF Contains(desc, sSortedmulti)
    THEN from_descriptor_multisig(desc)
    ELSE from_descriptor_singlesig(desc)

(***************************************************************************)
(* to_descriptors                                                          *)
(***************************************************************************)
NoDescriptors == [res |-> "InvalidExtendedKey", descs |-> <<>>]

Aborted == [res |-> "Abort", descs |-> <<>>]

RECURSIVE FoldKeys(_, _)
\* the fold over the keys: each appended as ",<key>/0/*"
FoldKeys(acc, xkeys) ==
    IF Len(xkeys) = 0 THEN acc
    ELSE FoldKeys(acc \o <<",">> \o xkeys[1].xkeystr \o sRecv, Tail(xkeys))

MultisigPrefix(kind) == IF kind = sPkh THEN sSh ELSE kind

to_descriptors(w) ==
    IF w.wallet_type.tag = "Standard"
    THEN IF Len(w.keystores) = 0 THEN Aborted
         ELSE LET exkey == GetXkey(w.keystores[1])
              IN  IF ~exkey.ok THEN NoDescriptors
                  ELSE [res |-> "Ok",
                        descs |-> << exkey.kind \o <<"(">> \o exkey.xkeystr \o sRecv \o <<")">>,
                                     exkey.kind \o <<"(">> \o exkey.xkeystr \o sChg \o <<")">> >>]
    ELSE LET xkeys == [i \in 1..Len(w.keystores) |-> GetXkey(w.keystores[i])]
         IN  IF \E i \in 1..Len(xkeys) : ~xkeys[i].ok THEN NoDescriptors
             ELSE IF Len(xkeys) = 0 THEN Aborted
             ELSE LET prefix == MultisigPrefix(xkeys[1].kind) \o <<"(">> \o sSortedmulti
                                    \o <<"(">> \o FormatInt(w.wallet_type.x)
                      closed == FoldKeys(prefix, xkeys) \o <<")", ")">>
                      desc == IF CountChar(closed, "(") > CountChar(closed, ")")
                              THEN closed \o <<")">>
                              ELSE closed
                  IN  [res |-> "Ok", descs |-> <<desc, Replace(desc, sRecv, sChg)>>]

(***************************************************************************)
(* WalletType                                                              *)
(***************************************************************************)
\* alternative (\d+)(of)(\d+) at i: the position after the first digit run
\* when it matches, or 0
OfMatchAt(s, i) ==
    LET e == RunEnd(s, i, Digit)
    IN  IF /\ e > i
           /\ StartsAt(s, e, sOf)
           /\ RunEnd(s, e + 2, Digit) > e + 2
        THEN e
        ELSE 0

\* Regex::captures of (standard)|(\d+)(of)(\d+): the groups of the leftmost
\* match that took part
WalletTypeCaptures(s) ==
    LET hits == {i \in 1..Len(s) : StartsAt(s, i, sStandard) \/ OfMatchAt(s, i) > 0}
    IN  IF hits = {} THEN <<>>
        ELSE LET i == CHOOSE m \in hits : \A n \in hits : m <= n
                 e == OfMatchAt(s, i)
             IN  IF StartsAt(s, i, sStandard) THEN <<sStandard>>
                 ELSE <<Slice(s, i, e), sOf, Slice(s, e + 2, RunEnd(s, e + 2, Digit))>>

\* FromStr for WalletType; res = "Abort" is the unwrap of a failed u8 parse
WalletTypeFromStr(s) ==
    LET captures == WalletTypeCaptures(s)
    IN  IF Len(captures) = 1
        THEN [res |-> "Ok", wallet_type |-> Standard]
        ELSE IF Len(captures) = 3
             THEN IF \/ ParseInt(captures[1], 0) > U8Max
                     \/ ParseInt(captures[3], 0) > U8Max
                  THEN [res |-> "Abort", wallet_type |-> Standard]
                  ELSE [res |-> "Ok",
                        wallet_type |-> Multisig(ParseInt(captures[1], 0),
                                                 ParseInt(captures[3], 0))]
             ELSE [res |-> "UnrecognizedWalletType", wallet_type |-> Standard]

\* Serialize for WalletType
WalletTypeToStr(t) ==
    IF t.tag = "Standard" THEN sStandard
    ELSE FormatInt(t.x) \o sOf \o FormatInt(t.y)

(***************************************************************************)
(* The field-name classifier.                                              *)
(***************************************************************************)
\* the arms of the match in visit_str, in the order written: <<name, Field>>
FieldArms ==
    <<
      <<<<"k", "e", "y", "s", "t", "o", "r", "e">>,
        "Keyst">>,
      <<<<"a", "d", "d", "r", "_", "h", "i", "s", "t", "o", "r", "y">>,
        "AddrHistory">>,
      <<<<"a", "d", "d", "r", "e", "s", "s", "e", "s">>,
        "Addrs">>,
      <<<<"c", "h", "a", "n", "n", "e", "l", "_", "b", "a", "c", "k", "u", "p", "s">>,
        "IgnoreMap">>,
      <<<<"c", "h", "a", "n", "n", "e", "l", "s">>,
        "IgnoreMap">>,
      <<<<"f", "i", "a", "t", "_", "v", "a", "l", "u", "e">>,
        "IgnoreMap">>,
      <<<<"i", "n", "v", "o", "i", "c", "e", "s">>,
        "IgnoreMap">>,
      <<<<"l", "a", "b", "e", "l", "s">>,
        "IgnoreMap">>,
      <<<<"l", "i", "g", "h", "t", "n", "i", "n", "g", "_", "p", "a", "y", "m", "e", "n", "t", "s">>,
        "IgnoreMap">>,
      <<<<"l", "i", "g", "h", "t", "n", "i", "n", "g", "_", "p", "r", "e", "i", "m", "a", "g", "e", "s">>,
        "IgnoreMap">>,
      <<<<"l", "i", "g", "h", "t", "n", "i", "n", "g", "_", "p", "r", "i", "v", "k", "e", "y", "2">>,
        "IgnoreString">>,
      <<<<"p", "a", "y", "m", "e", "n", "t", "_", "r", "e", "q", "u", "e", "s", "t", "s">>,
        "IgnoreMap">>,
      <<<<"p", "r", "e", "v", "o", "u", "t", "s", "_", "b", "y", "_", "s", "c", "r", "i", "p", "t", "h", "a", "s", "h">>,
        "IgnoreMap">>,
      <<<<"q", "t", "-", "c", "o", "n", "s", "o", "l", "e", "-", "h", "i", "s", "t", "o", "r", "y">>,
        "IgnoreVec">>,
      <<<<"s", "e", "e", "d", "_", "t", "y", "p", "e">>,
        "IgnoreString">>,
      <<<<"s", "e", "e", "d", "_", "v", "e", "r", "s", "i", "o", "n">>,
        "IgnoreNumber">>,
      <<<<"s", "p", "e", "n", "t", "_", "o", "u", "t", "p", "o", "i", "n", "t", "s">>,
        "IgnoreMap">>,
      <<<<"s", "t", "o", "r", "e", "d", "_", "h", "e", "i", "g", "h", "t">>,
        "IgnoreNumber">>,
      <<<<"s", "u", "b", "m", "a", "r", "i", "n", "e", "_", "s", "w", "a", "p", "s">>,
        "IgnoreMap">>,
      <<<<"t", "r", "a", "n", "s", "a", "c", "t", "i", "o", "n", "s">>,
        "IgnoreMap">>,
      <<<<"w", "a", "l", "l", "e", "t", "_", "t", "y", "p", "e">>,
        "WalTyp">>,
      <<<<"t", "x", "_", "f", "e", "e", "s">>,
        "IgnoreMap">>,
      <<<<"t", "x", "i">>,
        "IgnoreMap">>,
      <<<<"t", "x", "o">>,
        "IgnoreMap">>,
      <<<<"u", "s", "e", "_", "c", "h", "a", "n", "g", "e">>,
        "IgnoreBool">>,
      <<<<"u", "s", "e", "_", "e", "n", "c", "r", "y", "p", "t", "i", "o", "n">>,
        "IgnoreBool">>,
      <<<<"w", "i", "n", "p", "o", "s", "-", "q", "t">>,
        "WinPosQt">>,
      <<<<"v", "e", "r", "i", "f", "i", "e", "d", "_", "t", "x", "3">>,
        "IgnoreMap">>
    >>

\* alternative (x)(\d+)(/) at i
NumberedMatchAt(s, i) ==
    /\ At(s, i) = "x"
    /\ RunEnd(s, i + 1, Digit) > i + 1
    /\ At(s, RunEnd(s, i + 1, Digit)) = "/"

\* Regex::captures of (x)(\d+)(/)|([a-z_\-0-9]+): the groups of the
\* leftmost match that took part
FieldCaptures(s) ==
    LET hits == {i \in 1..Len(s) : NumberedMatchAt(s, i) \/ s[i] \in FieldChar}
    IN  IF hits = {} THEN <<>>
        ELSE LET i == CHOOSE m \in hits : \A n \in hits : m <= n
             IN  IF NumberedMatchAt(s, i)
                 THEN << <<"x">>, Slice(s, i + 1, RunEnd(s, i + 1, Digit)), <<"/">> >>
                 ELSE << Slice(s, i, RunEnd(s, i, FieldChar)) >>

\* FieldVisitor::visit_str: the Field of a document key, "Unknown" for the
\* unknown_field error
visit_str(name) ==
    LET captures == FieldCaptures(name)
        arms == {a \in 1..Len(FieldArms) : captures = <<FieldArms[a][1]>>}
    IN  IF Len(captures) = 3 THEN "Keyst"
        ELSE IF arms # {} THEN FieldArms[CHOOSE a \in arms : TRUE][2]
        ELSE "Unknown"

(***************************************************************************)
(* Documents: the ordered entries of the JSON object, each a key and a     *)
(* value.  A value carries the shape of its JSON text and, for the shapes  *)
(* the wallet keeps, its content.                                          *)
(***************************************************************************)
Value(shape, ks, str, addrs) ==
    [shape |-> shape, ks |-> ks, str |-> str, addrs |-> addrs]

KeystoreValue(ks) == Value("keystore", ks, <<>>, NewAddresses)

StringValue(t) == Value("string", Keystore(<<>>, None, <<>>), t, NewAddresses)

AddressesValue(a) == Value("addresses", Keystore(<<>>, None, <<>>), <<>>, a)

OtherValue(shape) == Value(shape, Keystore(<<>>, None, <<>>), <<>>, NewAddresses)

Entry(k, v) == [key |-> k, val |-> v]

\* the shape next_value() asks for under each Field
ExpectedShape(field) ==
    CASE field = "Addrs" -> "addresses"
      [] field = "Keyst" -> "keystore"
      [] field = "WalTyp" -> "string"
      [] field = "AddrHistory" -> "history"
      [] field = "WinPosQt" -> "winpos"
      [] field = "IgnoreBool" -> "bool"
      [] field = "IgnoreString" -> "string"
      [] field = "IgnoreNumber" -> "number"
      [] field = "IgnoreVec" -> "vec"
      [] field = "IgnoreMap" -> "map"

RECURSIVE VisitEntries(_, _, _)
\* the loop of visit_map over the entries from i, w the values so far
VisitEntries(doc, i, w) ==
    IF i > Len(doc) THEN Ok(w)
    ELSE LET field == visit_str(doc[i].key)
             v == doc[i].val
         IN  IF field = "Unknown" THEN Err("UnrecognizedField")
             ELSE IF v.shape # ExpectedShape(field) THEN Err("MalformedDocument")
             ELSE IF field = "Addrs"
                  THEN VisitEntries(doc, i + 1, [w EXCEPT !.addresses = v.addrs])
             ELSE IF field = "Keyst"
                  THEN VisitEntries(doc, i + 1,
                                    [w EXCEPT !.keystores = Append(@, v.ks)])
             ELSE IF field = "WalTyp"
                  THEN LET t == WalletTypeFromStr(v.str)
                       IN  IF t.res # "Ok" THEN Err(t.res)
                           ELSE VisitEntries(doc, i + 1,
                                             [w EXCEPT !.wallet_type = t.wallet_type])
             ELSE VisitEntries(doc, i + 1, w)

\* Deserialize for ElectrumWalletFile (visit_map)
visit_map(doc) ==
    VisitEntries(doc, 1, ElectrumWalletFile(NewAddresses, Standard, <<>>))

sAddresses == FieldArms[3][1]

sWalletType == FieldArms[21][1]

sKeystore == FieldArms[1][1]

NoDocument == [res |-> "Abort", doc |-> <<>>]

\* Serialize for ElectrumWalletFile, numbering the keystores from the last
serialize_reversed(w) ==
    LET head == << Entry(sAddresses, AddressesValue(w.addresses)),
                   Entry(sWalletType, StringValue(WalletTypeToStr(w.wallet_type))) >>
        n == Len(w.keystores)
    IN  IF w.wallet_type.tag = "Standard"
        THEN IF n = 0 THEN NoDocument
             ELSE [res |-> "Ok",
                   doc |-> Append(head, Entry(sKeystore, KeystoreValue(w.keystores[1])))]
        ELSE [res |-> "Ok",
              doc |-> head \o [i \in 1..n |->
                                  Entry(<<"x">> \o FormatInt(i) \o <<"/">>,
                                        KeystoreValue(w.keystores[n + 1 - i]))]]

\* Serialize for ElectrumWalletFile
serialize(w) ==
    LET head == << Entry(sAddresses, AddressesValue(w.addresses)),
                   Entry(sWalletType, StringValue(WalletTypeToStr(w.wallet_type))) >>
    IN  IF w.wallet_type.tag = "Standard"
        THEN IF Len(w.keystores) = 0 THEN NoDocument
             ELSE [res |-> "Ok",
                   doc |-> Append(head, Entry(sKeystore, KeystoreValue(w.keystores[1])))]
        ELSE [res |-> "Ok",
              doc |-> head \o [i \in 1..Len(w.keystores) |->
                                  Entry(<<"x">> \o FormatInt(i) \o <<"/">>,
                                        KeystoreValue(w.keystores[i]))]]

(***************************************************************************)
(* Inputs.                                                                 *)
(***************************************************************************)
Range(f) == {f[i] : i \in DOMAIN f}

SeqsUpTo(S, n) == UNION {[1..k -> S] : k \in 0..n}

xpubA == <<"x", "p", "u", "b", "A">>
xprvB == <<"x", "p", "r", "v", "B">>
tpubC == <<"t", "p", "u", "b", "C">>
xpub0 == <<"x", "p", "u", "b", "0">>

\* key tokens: a public key, a private key, a testnet public key, and a
\* token of the right shape that is no base58 text
KeyTokens == {xpubA, xprvB, tpubC, xpub0}

ValidKeys == {k \in KeyTokens : ExtendedPrivKeyFromStr(k) \/ ExtendedPubKeyFromStr(k)}

Closers(n) == [i \in 1..n |-> ")"]

Decorations == {<< <<>>, <<>> >>, << <<"#">>, <<>> >>, << <<>>, <<"#">> >>}

SingleWrappers ==
    {sPkh, sWpkh, sShWpkh, sWsh, sShWsh, <<"t", "r">>, <<"s", "h", "(", "p", "k", "h">>}

SingleTexts ==
    {d[1] \o w \o <<"(">> \o k \o p \o Closers(c) \o d[2] :
        d \in Decorations, w \in SingleWrappers, k \in KeyTokens,
        p \in {sRecv, sChg}, c \in 0..MaxClose}

Thresholds == {<<"2">>, <<"3">>, <<"1", "0">>}

MultiWrappers == {sSh, sWsh, sShWsh, sWpkh}

RECURSIVE JoinKeys(_)
JoinKeys(ks) ==
    IF Len(ks) = 0 THEN <<>>
    ELSE IF Len(ks) = 1 THEN ks[1] \o sRecv
    ELSE ks[1] \o sRecv \o <<",">> \o JoinKeys(Tail(ks))

MultiTexts ==
    {d[1] \o w \o <<"(">> \o sSortedmulti \o <<"(">> \o t \o <<",">> \o JoinKeys(ks)
          \o Closers(c) \o d[2] :
        d \in Decorations, w \in MultiWrappers, t \in Thresholds,
        ks \in SeqsUpTo(KeyTokens, MaxKeys) \ {<<>>}, c \in 0..MaxClose}

DescriptorTexts == SingleTexts \cup MultiTexts

WalletTypeTexts ==
    {sStandard,
     <<"2", "o", "f", "2">>,
     <<"2", "o", "f", "3">>,
     <<"0", "2", "o", "f", "0", "3">>,
     <<"1", "0", "o", "f", "2">>,
     <<"2", "5", "6", "o", "f", "3">>,
     <<"2", "o", "f", "3", "0", "0">>,
     <<"#", "2", "o", "f", "3", "#">>,
     sStandard \o <<"x">>,
     <<"2", "o", "f">>,
     <<"m", "u", "l", "t", "i">>,
     <<>>}

x1 == <<"x", "1", "/">>
x2 == <<"x", "2", "/">>

FieldNameTexts ==
    {FieldArms[a][1] : a \in 1..Len(FieldArms)}
    \cup {x1, x2, <<"x", "1", "0", "/">>,
          <<"x", "1">>, <<"x", "/">>, <<"X", "x", "1", "/">>, x1 \o <<"b">>,
          sKeystore \o <<"!">>, <<" ">> \o sAddresses, <<"K">> \o sKeystore,
          sWalletType \o <<"2">>, <<"f", "o", "o">>, <<>>}

\* keystore sections: as Keystore::new writes them, and one whose key text
\* is no tagged key
DocKeystores ==
    {KeystoreNew(sWsh, xpubA).ks, KeystoreNew(sPkh, xprvB).ks,
     Keystore(sBip32, None, <<"z", "p", "u", "b", "0">>)}

DocWalletTypes ==
    {sStandard, <<"2", "o", "f", "2">>, <<"1", "0", "o", "f", "2">>,
     <<"2", "5", "6", "o", "f", "3">>, <<"m", "u", "l", "t", "i">>}

DocAddresses == {[change |-> <<>>, receiving |-> << <<"b", "c", "1">> >>]}

sLabels == FieldArms[8][1]

DocEntries ==
    {Entry(k, KeystoreValue(v)) : k \in {sKeystore, x1, x2}, v \in DocKeystores}
    \cup {Entry(sWalletType, StringValue(t)) : t \in DocWalletTypes}
    \cup {Entry(sAddresses, AddressesValue(a)) : a \in DocAddresses}
    \cup {Entry(sLabels, OtherValue("map")), Entry(sLabels, OtherValue("number")),
          Entry(<<"f", "o", "o">>, OtherValue("map"))}

\* documents: the keys of a JSON object are distinct
Documents ==
    {d \in SeqsUpTo(DocEntries, MaxFields) :
        \A i, j \in 1..Len(d) : i # j => d[i].key # d[j].key}

(***************************************************************************)
(* The state machine: one action per public operation.  A run starts by    *)
(* reading one input (a descriptor text, a document, a wallet_type text or *)
(* a document key); the operations on the wallet it returns follow, each   *)
(* on the value the one before returned.                                   *)
(***************************************************************************)
NoValue == [field |-> "", wallet_type |-> Standard]

Init ==
    /\ op = "init"
    /\ text = <<>>
    /\ document = <<>>
    /\ wallet = NoWallet
    /\ descriptors = <<>>
    /\ value = NoValue
    /\ outcome = "Ok"

\* ElectrumWalletFile::from_descriptor: on a text when the run starts, or
\* on a descriptor the run rendered
FromDescriptor ==
    \E t \in (IF op = "init" THEN DescriptorTexts ELSE {})
             \cup (IF op = "to_descriptors" THEN Range(descriptors) ELSE {}) :
        LET r == from_descriptor(t)
        IN  /\ op' = "from_descriptor"
            /\ text' = t
            /\ wallet' = r.wallet
            /\ outcome' = r.res
            /\ document' = <<>>
            /\ descriptors' = <<>>
            /\ value' = NoValue

\* ElectrumWalletFile::from_file: on a document when the run starts, or on
\* the document the run wrote
Deserialize ==
    \E d \in (IF op = "init" THEN Documents ELSE {})
             \cup (IF op = "serialize" /\ outcome = "Ok" THEN {document} ELSE {}) :
        LET r == visit_map(d)
        IN  /\ op' = "deserialize"
            /\ document' = d
            /\ wallet' = r.wallet
            /\ outcome' = r.res
            /\ text' = <<>>
            /\ descriptors' = <<>>
            /\ value' = NoValue

\* ElectrumWalletFile::to_file on the wallet in hand
Serialize ==
    /\ wallet.some
    /\ op # "serialize"
    /\ LET r == serialize(wallet)
       IN  /\ op' = "serialize"
           /\ document' = r.doc
           /\ outcome' = r.res
    /\ UNCHANGED <<text, wallet, descriptors, value>>

\* ElectrumWalletFile::to_descriptors on the wallet in hand
ToDescriptors ==
    /\ wallet.some
    /\ op # "to_descriptors"
    /\ LET r == to_descriptors(wallet)
       IN  /\ op' = "to_descriptors"
           /\ descriptors' = r.descs
           /\ outcome' = r.res
    /\ UNCHANGED <<text, document, wallet, value>>

\* WalletType::from_str on a text
FromStr ==
    /\ op = "init"
    /\ \E t \in WalletTypeTexts :
        LET r == WalletTypeFromStr(t)
        IN  /\ op' = "from_str"
            /\ text' = t
            /\ value' = [NoValue EXCEPT !.wallet_type = r.wallet_type]
            /\ outcome' = r.res
            /\ UNCHANGED <<wallet, document, descriptors>>

\* Field::deserialize on a document key
VisitStr ==
    /\ op = "init"
    /\ \E n \in FieldNameTexts :
        /\ op' = "visit_str"
        /\ text' = n
        /\ value' = [NoValue EXCEPT !.field = visit_str(n)]
        /\ outcome' = IF visit_str(n) = "Unknown" THEN "UnrecognizedField" ELSE "Ok"
        /\ UNCHANGED <<wallet, document, descriptors>>

Next ==
    \/ FromDescriptor
    \/ Deserialize
    \/ Serialize
    \/ ToDescriptors
    \/ FromStr
    \/ VisitStr

Spec == Init /\ [][Next]_vars

(***************************************************************************)
(* The grammar of descriptor texts as the specification states it.         *)
(***************************************************************************)
\* the closing parentheses of a wrapper: one for each one it opens
WrapperClosers(w) == Closers(CountChar(w, "(") + 1)

SingleTemplate(w, k) == w \o <<"(">> \o k \o sRecv \o WrapperClosers(w)

MultiTemplate(w, t, ks) ==
    w \o <<"(">> \o sSortedmulti \o <<"(">> \o t \o <<",">> \o JoinKeys(ks)
      \o <<")">> \o WrapperClosers(w)

MultiTemplateWrappers == {sSh, sWsh, sShWsh}

KeySeqs(S, lo) == {ks \in SeqsUpTo(S, MaxKeys) : Len(ks) >= lo}

InSingleGrammar(t) ==
    \E w \in ScriptKinds, k \in KeyTokens : t = SingleTemplate(w, k)

InMultiGrammar(t, lo) ==
    \E w \in MultiTemplateWrappers, th \in Thresholds, ks \in KeySeqs(KeyTokens, lo) :
        t = MultiTemplate(w, th, ks)

\* the standard-form key texts of a wallet's keystores, in stored order
WalletKeys(w) == [i \in 1..Len(w.keystores) |-> GetXkey(w.keystores[i]).xkeystr]

RECURSIVE SplitAt(_, _, _)
\* the pieces of s between the separators c, cur the piece being read
SplitAt(s, c, cur) ==
    IF Len(s) = 0 THEN <<cur>>
    ELSE IF s[1] = c THEN <<cur>> \o SplitAt(Tail(s), c, <<>>)
    ELSE SplitAt(Tail(s), c, Append(cur, s[1]))

\* the keys a rendered multisig descriptor lists, left to right: the
\* arguments of sortedmulti after the threshold, without their path
DescriptorKeys(t) ==
    LET open == CHOOSE i \in 1..Len(t) : StartsAt(t, i, sSortedmulti)
        from == open + Len(sSortedmulti) + 1
        close == CHOOSE i \in from..Len(t) :
                     t[i] = ")" /\ \A j \in from..(i - 1) : t[j] # ")"
        args == SplitAt(Slice(t, from, close), ",", <<>>)
    IN  [i \in 1..(Len(args) - 1) |->
            SubSeq(args[i + 1], 1, Len(args[i + 1]) - Len(sRecv))]

(***************************************************************************)
(* Claims.                                                                 *)
(***************************************************************************)

\* C1: for each of the five single-signature templates D over a valid key,
\* from_descriptor(D) succeeds and to_descriptors on the result returns
\* exactly [D, D with /0/* replaced by /1/*].
C1_SinglesigRoundTrip ==
    \A w \in ScriptKinds, k \in ValidKeys :
        text = SingleTemplate(w, k) =>
            /\ op = "from_descriptor" => outcome = "Ok"
            /\ op = "to_descriptors" =>
                /\ outcome = "Ok"
                /\ descriptors = <<text, Replace(text, sRecv, sChg)>>

\* C2: every wrapped sortedmulti text over n >= 2 valid keys and any
\* threshold written in decimal digits parses to Multisig(t, n) with empty
\* addresses and the n keystores built from the keys in text order, all of
\* the wrapper's kind.
C2_MultisigParse ==
    \A w \in MultiTemplateWrappers, th \in Thresholds, ks \in KeySeqs(ValidKeys, 2) :
        (op = "from_descriptor" /\ text = MultiTemplate(w, th, ks)) =>
            /\ outcome = "Ok"
            /\ wallet.some
            /\ wallet.wallet_type = Multisig(ParseInt(th, 0), Len(ks))
            /\ wallet.addresses = NewAddresses
            /\ wallet.keystores =
                   [i \in 1..Len(ks) |-> KeystoreNew(MultisigKind(w), ks[i]).ks]

\* the wallet keeps the data model's invariant
WellFormed(w) ==
    \/ w.wallet_type.tag = "Standard" /\ Len(w.keystores) = 1
    \/ /\ w.wallet_type.tag = "Multisig"
       /\ Len(w.keystores) = w.wallet_type.y
       /\ w.wallet_type.y >= 2

\* C3: a document that parses to a wallet W, serialized and parsed again,
\* yields a wallet equal to W on addresses, wallet_type and the keystores.
C3_DocumentRoundTrip ==
    (op = "deserialize" /\ outcome = "Ok") =>
        /\ serialize(wallet).res = "Ok"
        /\ visit_map(serialize(wallet).doc).res = "Ok"
        /\ visit_map(serialize(wallet).doc).wallet = wallet

\* C4: every wallet returned by from_descriptor or by parsing a document
\* has one keystore iff it is Standard and `total` keystores iff it is
\* Multisig(_, total).
C4_KeystoreCount ==
    (op \in {"from_descriptor", "deserialize"} /\ outcome = "Ok") =>
        /\ Len(wallet.keystores) = 1 <=> wallet.wallet_type.tag = "Standard"
        /\ wallet.wallet_type.tag = "Multisig" =>
               Len(wallet.keystores) = wallet.wallet_type.y

\* C5: when to_descriptors succeeds on a wallet with [R, C], from_descriptor(R)
\* succeeds and to_descriptors on that wallet returns [R, C] again.  Stated
\* for the wallets that keep the data model's invariant.
C5_Idempotent ==
    (op = "to_descriptors" /\ outcome = "Ok" /\ WellFormed(wallet)) =>
        /\ from_descriptor(descriptors[1]).res = "Ok"
        /\ to_descriptors(from_descriptor(descriptors[1]).wallet).res = "Ok"
        /\ to_descriptors(from_descriptor(descriptors[1]).wallet).descs = descriptors

\* C6: from_descriptor returns an error and no wallet for every text outside
\* the grammar: insufficient signers for a multisig text of one key,
\* unrecognized descriptor for any other text that is none of the five
\* templates and no wrapped sortedmulti.
C6_RejectsOutsideGrammar ==
    op = "from_descriptor" =>
        /\ (\E w \in MultiTemplateWrappers, th \in {<<"2">>, <<"3">>}, k \in ValidKeys :
                text = MultiTemplate(w, th, <<k>>))
               => (outcome = "InsufficientSigners" /\ ~wallet.some)
        /\ (~InSingleGrammar(text) /\ ~InMultiGrammar(text, 1))
               => (outcome = "UnrecognizedDescriptor" /\ ~wallet.some)

IgnoredFields ==
    {"AddrHistory", "WinPosQt", "IgnoreBool", "IgnoreString", "IgnoreNumber",
     "IgnoreMap", "IgnoreVec"}

\* the names of the catalogue that are read and discarded
IgnoredNames ==
    {FieldArms[a][1] : a \in {b \in 1..Len(FieldArms) : FieldArms[b][2] \in IgnoredFields}}

\* a whole name of the shape x<digits>/
IsNumberedName(n) ==
    /\ Len(n) >= 3
    /\ n[1] = "x"
    /\ n[Len(n)] = "/"
    /\ \A i \in 2..(Len(n) - 1) : n[i] \in Digit

\* C7: the classifier maps a name to Keystore only if the whole name is
\* keystore or x<digits>/, to Addresses only if it is addresses, to
\* WalletType only if it is wallet_type, to an ignored section only if it is
\* a name of the catalogue; every other name is the unrecognized-field error.
C7_FieldClassifier ==
    op = "visit_str" =>
        /\ value.field = "Keyst" => (text = sKeystore \/ IsNumberedName(text))
        /\ value.field = "Addrs" => text = sAddresses
        /\ value.field = "WalTyp" => text = sWalletType
        /\ value.field \in IgnoredFields => text \in IgnoredNames
        /\ (/\ text # sKeystore
            /\ ~IsNumberedName(text)
            /\ text \notin {sAddresses, sWalletType}
            /\ text \notin IgnoredNames) => outcome = "UnrecognizedField"

\* a whole text of the shape <digits>of<digits>
IsOfShape(t) ==
    \E i \in 2..(Len(t) - 2) :
        /\ StartsAt(t, i, sOf)
        /\ \A j \in 1..(i - 1) : t[j] \in Digit
        /\ \A j \in (i + 2)..Len(t) : t[j] \in Digit

OfLeft(t) == Slice(t, 1, RunEnd(t, 1, Digit))

OfRight(t) == Slice(t, RunEnd(t, 1, Digit) + 2, Len(t) + 1)

\* C8: WalletType parse is total and returns errors as values: standard
\* gives Standard, <digits>of<digits> gives Multisig of the two values, and
\* every other text (digit runs that do not fit 8 bits, extra characters
\* around the shape) gives the unrecognized-wallet-type error.
C8_WalletTypeParse ==
    op = "from_str" =>
        /\ outcome # "Abort"
        /\ text = sStandard => (outcome = "Ok" /\ value.wallet_type = Standard)
        /\ (IsOfShape(text) /\ ParseInt(OfLeft(text), 0) <= U8Max
                            /\ ParseInt(OfRight(text), 0) <= U8Max)
               => /\ outcome = "Ok"
                  /\ value.wallet_type = Multisig(ParseInt(OfLeft(text), 0),
                                                  ParseInt(OfRight(text), 0))
        /\ (/\ text # sStandard
            /\ ~(IsOfShape(text) /\ ParseInt(OfLeft(text), 0) <= U8Max
                                 /\ ParseInt(OfRight(text), 0) <= U8Max))
               => outcome = "UnrecognizedWalletType"

\* C9: on every wallet a document or a descriptor parsed to, to_descriptors
\* returns two strings (receive, then the receive with /0/* replaced by
\* /1/*) or the invalid-extended-key error; it never aborts.
C9_ToDescriptorsTotal ==
    op = "to_descriptors" =>
        \/ /\ outcome = "Ok"
           /\ Len(descriptors) = 2
           /\ descriptors[2] = Replace(descriptors[1], sRecv, sChg)
        \/ outcome = "InvalidExtendedKey"

\* the keystore sections of a document, in the order the document holds them
KeystoreSections(doc) ==
    LET IsKeystore(e) == visit_str(e.key) = "Keyst"
        es == SelectSeq(doc, IsKeystore)
    IN  [i \in 1..Len(es) |-> es[i].val.ks]

IsMultisig(w) == w.some /\ w.wallet_type.tag = "Multisig"

\* C10: signer position is stable across every conversion step of a
\* Multisig wallet with keystores k1..kn: from_descriptor stores the keys in
\* text order; to_descriptors lists them in stored order; serialization
\* writes field x<i>/ holding ki for i = 1..n; parsing appends the keystores
\* in the order the document holds their fields; so parsing what was
\* written, or what was rendered, gives the same order again.
C10_SignerOrder ==
    /\ (op = "from_descriptor" /\ outcome = "Ok" /\ IsMultisig(wallet)) =>
           WalletKeys(wallet) = DescriptorKeys(text)
    /\ (op = "to_descriptors" /\ outcome = "Ok" /\ IsMultisig(wallet)) =>
           /\ DescriptorKeys(descriptors[1]) = WalletKeys(wallet)
           /\ DescriptorKeys(descriptors[2]) = WalletKeys(wallet)
           /\ from_descriptor(descriptors[1]).res = "Ok" =>
                  WalletKeys(from_descriptor(descriptors[1]).wallet) = WalletKeys(wallet)
    /\ (op = "serialize" /\ outcome = "Ok" /\ IsMultisig(wallet)) =>
           /\ Len(document) = Len(wallet.keystores) + 2
           /\ \A i \in 1..Len(wallet.keystores) :
                  document[i + 2] = Entry(<<"x">> \o FormatInt(i) \o <<"/">>,
                                          KeystoreValue(wallet.keystores[i]))
           /\ visit_map(document).res = "Ok"
           /\ visit_map(document).wallet.keystores = wallet.keystores
    /\ (op = "deserialize" /\ outcome = "Ok") =>
           wallet.keystores = KeystoreSections(document)

\* a Multisig wallet of two different keys, parsed from the document the
\* serializer wrote for the wallet a descriptor gave
C10_Witness ==
    /\ op = "deserialize"
    /\ outcome = "Ok"
    /\ IsMultisig(wallet)
    /\ Len(wallet.keystores) = 2
    /\ WalletKeys(wallet)[1] # WalletKeys(wallet)[2]
    /\ Len(document) = 4
    /\ document[3].key = x1
    /\ document[4].key = x2

====
